---- MODULE Spec2Model ----
(***************************************************************************)
(* Model of PollingShardConsumer.getRecords                                *)
(* (clientlibrary/worker/polling-shard-consumer.go): the polling loop that *)
(* drives one shard from iterator acquisition to loop exit.  One run of    *)
(* getRecords is modelled; every call to a collaborator (checkpointer,     *)
(* Kinesis client, record processor) and every sleep is a step; the stop   *)
(* channel can be closed between any two steps.  Times are in              *)
(* milliseconds.                                                           *)
(***************************************************************************)
EXTENDS Integers, Sequences, FiniteSets, TLC

VARIABLES
    pc,                   \* position of the run inside getRecords
    now,                  \* wall clock (ms)
    stop,                 \* the stop channel *sc.stop has been closed
    maxRetryCount,        \* sc.kclConfig.MaxRetryCount
    idleTime,             \* sc.kclConfig.IdleTimeBetweenReadsInMillis
    leaseTimeout,         \* sc.shard.GetLeaseTimeout()
    retriedErrors,        \* local retriedErrors
    transactionNum,       \* local transactionNum
    firstTransactionTime, \* local firstTransactionTime
    resp,                 \* getResp, err of the most recent GetRecords call
    outcome,              \* value returned by getRecords ("none" while running)
    events,               \* calls made on the record processor and releaseLease, in order
    fetchCalls,           \* number of sc.kc.GetRecords calls issued
    slept,                \* time.Sleep calls made since the most recent GetRecords call returned
    failRun,              \* kinds of the consecutive retriable GetRecords failures since the last success
    renewErr,             \* error of the failed sc.checkpointer.GetLease call ("none" if none failed)
    parentRes,            \* err of sc.waitOnParentShard(), in scope up to line 97 ("none" outside)
    fetchLimit,           \* number of GetRecords calls the Kinesis client answers in this run
    answers,              \* the responses the Kinesis client may give in this run
    latencies,            \* the durations a GetRecords call may take in this run
    tracing,              \* which of the logs below the collaborators keep in this run
    callTimes,            \* issue times of the most recent GetRecords calls
    fetched,              \* ids of the batches returned by successful GetRecords calls, in order
    delivered,            \* ids of the batches passed to processRecords, in order
    sinceStop,            \* number of GetRecords calls issued after the stop channel was closed
    callMillis,           \* duration of the failed GetRecords call whose retry delay is pending (0 otherwise)
    rl                    \* the rate limiter of callGetRecordsAPI: its fields, injected clock and result

vars == <<pc, now, stop, maxRetryCount, idleTime, leaseTimeout, retriedErrors,
          transactionNum, firstTransactionTime, resp,
          outcome, events, fetchCalls, slept, failRun, renewErr, parentRes,
          fetchLimit, answers, latencies, tracing, callTimes, fetched, delivered, sinceStop,
          callMillis, rl>>

----------------------------------------------------------------------------
(* Bounds of the model *)

MaxRetryBound == 2
MaxFetches == 5
MaxTraceFetches == 7
\* durations of the model, in units of 100 ms
LeaseDurationTicks == 30
LeaseRefreshTicks == 10
IdleTicks == 10
CallTicks == 2

(* Program constants *)

MaxReadTransactionsPerSecond == 5
Second == 1000
BackoffBaseMillis == 100

LeaseDurationMillis == LeaseDurationTicks * 100
LeaseRefreshPeriodMillis == LeaseRefreshTicks * 100
IdleMillis == IdleTicks * 100
CallMillis == CallTicks * 100

IdleTimes == {0, IdleMillis}
Lags == {0, IdleMillis}
RecordCounts == {0, 2}
CallDurations == {0, CallMillis}
InitialLeaseTimeouts == {LeaseRefreshPeriodMillis, LeaseDurationMillis}

----------------------------------------------------------------------------
(* Responses of the collaborators *)

NoResp == [kind |-> "none", n |-> 0, lag |-> 0, hasNext |-> FALSE, id |-> 0]

OkResponses == [kind : {"ok"}, n : RecordCounts, lag : Lags, hasNext : BOOLEAN]

ErrResp(k) == [kind |-> k, n |-> 0, lag |-> 0, hasNext |-> FALSE]

\* ProvisionedThroughputExceededException, KMSThrottlingException, any other error
FetchErrors == {ErrResp("pte"), ErrResp("kms"), ErrResp("other")}

FetchResponses == OkResponses \cup FetchErrors

\* the response r as the answer to GetRecords call number i
Answer(r, i) == [kind |-> r.kind, n |-> r.n, lag |-> r.lag, hasNext |-> r.hasNext, id |-> i]

\* the last n elements of seq
LastN(seq, n) == IF Len(seq) <= n THEN seq ELSE SubSeq(seq, Len(seq) - n + 1, Len(seq))

ParentWaitResults == {"ok", "ErrSequenceIDNotFound", "parentErr"}
IteratorResults == {"ok", "iterErr"}
LeaseResults == {"ok", "ErrLeaseNotAcquired", "leaseErr"}

----------------------------------------------------------------------------
(* Pure helpers of the loop *)

RECURSIVE Exp2(_)
Exp2(n) == IF n = 0 THEN 1 ELSE 2 * Exp2(n - 1)

\* variant: the backoff starts at the base delay (exponent off by one)
BackoffMillisFromBase(n) == Exp2(n - 1) * BackoffBaseMillis

\* time.Duration(math.Exp2(float64(retriedErrors))*100) * time.Millisecond, in ms
BackoffMillis(n) == Exp2(n) * BackoffBaseMillis

\* variant: the last allowed retry is cut off (>= instead of >)
RetryExhaustedEarly(n, max) == n >= max

\* retriedErrors > sc.kclConfig.MaxRetryCount
RetryExhausted(n, max) == n > max

\* variant: every GetRecords error is retried
IsRetriableAny(kind) == kind \in {"pte", "kms", "other"}

\* errors.As(err, &throughputExceededErr) or errors.As(err, &kmsThrottlingErr)
IsRetriable(kind) == kind \in {"pte", "kms"}

\* the lease is within LeaseRefreshPeriodMillis of its timeout
LeaseNeedsRefresh(t, timeout) == t > timeout - LeaseRefreshPeriodMillis

\* variant: a lost lease is reported to the caller like any other renewal error
RenewFailureIsError(r) == r

\* outcome of getRecords on a failed lease renewal
RenewFailureOutcome(r) == IF r = "ErrLeaseNotAcquired" THEN "nil" ELSE r

\* variant: the idle sleep is also taken when the lag equals the threshold
ShouldIdleAtThreshold(n, lag, idle) == n = 0 /\ lag <= idle

\* the condition of the idle sleep
ShouldIdle(n, lag, idle) == n = 0 /\ lag < idle

\* variant: a final batch that still carries records is not taken as the end of the shard
ShardClosedWhenEmpty(r) == ~r.hasNext /\ r.n = 0

\* getResp.NextShardIterator == nil
ShardClosed(r) == ~r.hasNext

\* variant: the sleep is the time already waited, not the remainder of the second
CooldownElapsedMillis(waitTime) == IF waitTime < Second THEN waitTime ELSE 0

\* the sleep that completes the one-second cooldown after a throughput-exceeded failure
CooldownMillis(waitTime) == IF waitTime < Second THEN Second - waitTime ELSE 0

\* variant: a retry goes straight back to the GetRecords call
ContinueAtFetch == "fetch"

\* where `continue` (lines 177, 193) resumes: the top of the for loop, line 117
ContinueTarget == "leaseCheck"

\* variant: the stop channel is looked at before the end of the shard
CloseNotificationStopFirst(stopped) ==
    IF stopped THEN "Shutdown:REQUESTED" ELSE "Shutdown:TERMINATE"

\* the notification sent when the shard is closed (line 213)
CloseNotification(stopped) == "Shutdown:TERMINATE"

\* variant: the counter is not reset
RetriesKept(r) == r

\* retriedErrors after a successful fetch
RetriesAfterSuccess(r) == 0

\* variant: KMS throttling does not count against the retry budget
RetriesAfterFailureKmsFree(r, kind) == IF kind = "kms" THEN r ELSE r + 1

\* retriedErrors after a retriable failure of either kind
RetriesAfterFailure(r, kind) == r + 1

----------------------------------------------------------------------------
(* The rate limiter of callGetRecordsAPI.  Bytes are counted in kB. *)

KinesisReadTPSLimit == 5
MaxBytes == 10000
MaxBytesPerSecond == 2000

\* the cool-offs (ms) callGetRecordsAPI may take before a call, after bytesRead
\* kB were read in the last elapsed ms with a carried-over byte budget of
\* remBytes kB.  With a full budget (at least MaxBytes, as in every cool-off
\* case of TestCallGetRecordsAPI) the byte rate decides: bytesRead /
\* MaxBytesPerSecond seconds when the bytes read exceed what the elapsed time
\* allows, nothing otherwise.  How a smaller budget enters is described
\* neither by the test nor by a formula: any whole number of seconds up to
\* MaxBytes / MaxBytesPerSecond is possible.
CoolOffMillis(bytesRead, elapsed, remBytes) ==
    IF remBytes >= MaxBytes
    THEN {IF bytesRead * 1000 > MaxBytesPerSecond * elapsed
          THEN (bytesRead * 1000) \div MaxBytesPerSecond
          ELSE 0}
    ELSE {n * Second : n \in 0..(MaxBytes \div MaxBytesPerSecond)}

\* variant: the call budget is refilled on every call
WindowElapsedAlways(sinceFirstCall) == TRUE

\* a full second has passed since the first call of the window: a new window starts
WindowElapsed(sinceFirstCall) == sinceFirstCall >= Second

NoLimiter ==
    [phase |-> "unused", callsLeft |-> 0, bytesRead |-> 0, sinceLastCheck |-> 0,
     remBytes |-> 0, sinceFirstCall |-> 0, callsLeft0 |-> 0, out |-> "nil", err |-> "nil",
     sleepMillis |-> 0, calls |-> 0]

\* the consumers and injected clocks callGetRecordsAPI is run with: the field
\* values of TestCallGetRecordsAPI (remBytes is left 0 in its first cases)
LimiterInputs ==
    [phase : {"ready"}, callsLeft : 0..KinesisReadTPSLimit,
     bytesRead : {0, MaxBytesPerSecond, 3 * MaxBytesPerSecond, 4 * MaxBytesPerSecond, MaxBytes},
     remBytes : {0, MaxBytes, 3 * MaxBytes},
     sinceLastCheck : {200, 1000, 3000}, sinceFirstCall : {500, 2000, 3000},
     callsLeft0 : {0}, out : {"nil"}, err : {"nil"}, sleepMillis : {0}, calls : {0}]

InitLimiter ==
    /\ pc = "callGetRecordsAPI"
    /\ now = 0
    /\ stop = FALSE
    /\ retriedErrors = 0
    /\ transactionNum = 0
    /\ firstTransactionTime = 0
    /\ resp = NoResp
    /\ outcome = "none"
    /\ events = <<>>
    /\ fetchCalls = 0
    /\ slept = <<>>
    /\ failRun = <<>>
    /\ renewErr = "none"
    /\ parentRes = "none"
    /\ callTimes = <<>>
    /\ fetched = <<>>
    /\ delivered = <<>>
    /\ sinceStop = 0
    /\ callMillis = 0
    /\ maxRetryCount = 0
    /\ idleTime = 0
    /\ leaseTimeout = LeaseDurationMillis
    /\ fetchLimit = 0
    /\ answers = {}
    /\ latencies = {}
    /\ tracing = {}
    /\ \E i \in LimiterInputs : rl = [i EXCEPT !.callsLeft0 = i.callsLeft]

\* one call of callGetRecordsAPI
CallGetRecordsAPI ==
    /\ pc = "callGetRecordsAPI"
    /\ rl.phase = "ready"
    /\ LET budget == IF WindowElapsed(rl.sinceFirstCall) THEN KinesisReadTPSLimit
                                                        ELSE rl.callsLeft
       IN IF budget < 1
          THEN rl' = [rl EXCEPT !.phase = "returned", !.callsLeft = budget,
                                !.out = "nil", !.err = "localTPSExceededError"]
          ELSE \E ms \in (IF rl.bytesRead # 0
                           THEN CoolOffMillis(rl.bytesRead, rl.sinceLastCheck, rl.remBytes)
                           ELSE {0}) :
                  rl' = [rl EXCEPT !.phase = "returned", !.callsLeft = budget - 1,
                                   !.sleepMillis = ms,
                                   !.calls = rl.calls + 1,
                                   !.out = "output", !.err = "nil"]
    /\ pc' = "apiReturned"
    /\ UNCHANGED <<now, stop, maxRetryCount, idleTime, fetchLimit, answers, latencies, tracing,
                   leaseTimeout, retriedErrors, transactionNum, firstTransactionTime, resp,
                   outcome, events, fetchCalls, slept, failRun, renewErr, parentRes,
                   callTimes, fetched, delivered, sinceStop, callMillis>>

LimiterNext == CallGetRecordsAPI

LimiterSpec == InitLimiter /\ [][LimiterNext]_vars

----------------------------------------------------------------------------
Init ==
    /\ pc = "waitParent"
    /\ now = 0
    /\ stop = FALSE
    /\ maxRetryCount \in 0..MaxRetryBound
    /\ idleTime \in IdleTimes
    /\ leaseTimeout \in InitialLeaseTimeouts
    /\ retriedErrors = 0
    /\ transactionNum = 0
    /\ firstTransactionTime = 0
    /\ resp = NoResp
    /\ outcome = "none"
    /\ events = <<>>
    /\ fetchCalls = 0
    /\ slept = <<>>
    /\ failRun = <<>>
    /\ renewErr = "none"
    /\ parentRes = "none"
    /\ fetchLimit = MaxFetches
    /\ answers = FetchResponses
    /\ latencies = CallDurations
    /\ tracing = {}
    /\ rl = NoLimiter
    /\ callTimes = <<>>
    /\ fetched = <<>>
    /\ delivered = <<>>
    /\ sinceStop = 0
    /\ callMillis = 0

config == <<maxRetryCount, idleTime, fetchLimit, answers, latencies, tracing, rl>>
logs == <<callTimes, fetched, delivered, sinceStop, callMillis>>
locals == <<retriedErrors, transactionNum, firstTransactionTime, resp>>

\* return from getRecords with value o: the deferred releaseLease is pending
Return(o) == pc' = "returning" /\ outcome' = o

\* variant: a parent whose checkpoint is gone fails the run like any other error
ParentWaitFailedAny(r) == r # "ok"

\* err != nil && err != chk.ErrSequenceIDNotFound
ParentWaitFailed(r) == r \notin {"ok", "ErrSequenceIDNotFound"}

\* lines 90-97: wait for the parent shard
WaitOnParentShard ==
    /\ pc = "waitParent"
    /\ \E r \in ParentWaitResults :
          /\ parentRes' = r
          /\ IF ParentWaitFailed(r)
             THEN Return(r)
             ELSE pc' = "getIterator" /\ outcome' = outcome
    /\ UNCHANGED <<now, stop, config, leaseTimeout, locals, events, fetchCalls, slept,
                   failRun, renewErr, logs>>

\* lines 99-103: acquire the shard iterator
GetShardIterator ==
    /\ pc = "getIterator"
    /\ \E r \in IteratorResults :
          IF r = "ok"
          THEN pc' = "initialize" /\ outcome' = outcome
          ELSE Return(r)
    /\ parentRes' = "none"
    /\ UNCHANGED <<now, stop, config, leaseTimeout, locals, events,
                   fetchCalls, slept, failRun, renewErr, logs>>

\* lines 105-115: initialize the record processor, then set up the loop's locals
Initialize ==
    /\ pc = "initialize"
    /\ pc' = "leaseCheck"
    /\ events' = Append(events, "Initialize")
    /\ retriedErrors' = 0
    /\ transactionNum' = 0
    /\ UNCHANGED <<now, stop, config, leaseTimeout, firstTransactionTime, resp, outcome,
                   fetchCalls, slept, failRun, renewErr, parentRes, logs>>

\* lines 117-135: renew the lease when it is about to expire
LeaseCheck ==
    /\ pc = "leaseCheck"
    /\ IF LeaseNeedsRefresh(now, leaseTimeout)
       THEN \E r \in LeaseResults :
               IF r = "ok"
               THEN /\ pc' = "throttle"
                    /\ outcome' = outcome
                    /\ leaseTimeout' \in {leaseTimeout, now + LeaseDurationMillis}
                    /\ renewErr' = renewErr
               ELSE /\ Return(RenewFailureOutcome(r))
                    /\ leaseTimeout' = leaseTimeout
                    /\ renewErr' = r
       ELSE /\ pc' = "throttle"
            /\ UNCHANGED <<outcome, leaseTimeout, renewErr>>
    /\ UNCHANGED <<now, stop, config, retriedErrors, transactionNum,
                   firstTransactionTime, resp, events, fetchCalls, slept, failRun,
                   parentRes, logs>>

\* lines 143-150: the read-transaction throttle
Throttle ==
    /\ pc = "throttle"
    /\ pc' = "fetch"
    /\ IF transactionNum > MaxReadTransactionsPerSecond
       THEN /\ transactionNum' = 0
            /\ LET timeDiff == now - firstTransactionTime IN
                 IF timeDiff < Second
                 THEN /\ now' = now + timeDiff
                      /\ slept' = Append(slept, [kind |-> "throttle", ms |-> timeDiff])
                 ELSE UNCHANGED <<now, slept>>
       ELSE UNCHANGED <<transactionNum, now, slept>>
    /\ UNCHANGED <<stop, config, leaseTimeout, retriedErrors, firstTransactionTime,
                   resp, outcome, events, fetchCalls, failRun, renewErr, parentRes, logs>>

\* lines 161-169, 179-188: a retriable failure r (throughput exceeded or KMS
\* throttling) is counted; past the retry limit it is returned, otherwise the
\* delay of lines 171-176 or 190-192 is pending
FetchRetriable(r, t) ==
    /\ retriedErrors' = RetriesAfterFailure(retriedErrors, r.kind)
    /\ failRun' = Append(failRun, r.kind)
    /\ now' = t
    /\ slept' = <<>>
    /\ IF RetryExhausted(retriedErrors', maxRetryCount)
       THEN /\ Return(r.kind)
            /\ callMillis' = 0
       ELSE /\ pc' = "retryWait"
            /\ outcome' = outcome
            /\ callMillis' = t - now
    /\ UNCHANGED <<transactionNum, firstTransactionTime>>

\* lines 195-196: any other error
FetchFatal(r, t) ==
    /\ Return(r.kind)
    /\ now' = t
    /\ slept' = <<>>
    /\ UNCHANGED <<retriedErrors, transactionNum, firstTransactionTime, failRun, callMillis>>

\* lines 199-206: a successful fetch
FetchOk(r, t) ==
    /\ retriedErrors' = RetriesAfterSuccess(retriedErrors)
    /\ transactionNum' = transactionNum + 1
    /\ firstTransactionTime' = IF transactionNum' = 1 THEN t ELSE firstTransactionTime
    /\ pc' = "process"
    /\ outcome' = outcome
    /\ now' = t
    /\ slept' = <<>>
    /\ failRun' = <<>>
    /\ callMillis' = callMillis

\* lines 155-206: call GetRecords and classify the result; the delay that
\* precedes a retry is a step of its own (RetryWait)
Fetch ==
    /\ pc = "fetch"
    /\ fetchCalls < fetchLimit
    /\ fetchCalls' = fetchCalls + 1
    /\ \E r \in answers, d \in latencies :
          /\ resp' = Answer(r, fetchCalls')
          /\ fetched' = IF "batches" \in tracing /\ r.kind = "ok"
                        THEN Append(fetched, fetchCalls')
                        ELSE fetched
          /\ IF r.kind = "ok" THEN FetchOk(r, now + d)
             ELSE IF IsRetriable(r.kind) THEN FetchRetriable(r, now + d)
             ELSE FetchFatal(r, now + d)
    /\ callTimes' = IF "calls" \in tracing
                    THEN LastN(Append(callTimes, now), MaxReadTransactionsPerSecond + 1)
                    ELSE callTimes
    /\ sinceStop' = IF "stop" \in tracing /\ stop THEN sinceStop + 1 ELSE sinceStop
    /\ UNCHANGED <<stop, config, leaseTimeout, events, renewErr, parentRes, delivered>>

\* lines 171-177, 190-193: sleep before the retry, then `continue`
RetryWait ==
    /\ pc = "retryWait"
    /\ LET ms == IF resp.kind = "pte"
                 THEN \* waitTime := time.Since(getRecordsTransactionTime), read right after
                      \* getRecordsTransactionTime := time.Now(): no whole millisecond elapses
                      CooldownMillis(0)
                 ELSE BackoffMillis(retriedErrors)
       IN /\ now' = now + ms
          /\ slept' = Append(slept, [kind |-> resp.kind, ms |-> ms])
    /\ pc' = ContinueTarget
    /\ callMillis' = 0
    /\ UNCHANGED <<stop, config, leaseTimeout, locals, outcome, events, fetchCalls,
                   failRun, renewErr, parentRes, callTimes, fetched, delivered, sinceStop>>

\* variant: the end of the shard is handled before the batch is delivered
ProcessRecordsUnlessClosed ==
    /\ pc = "process"
    /\ IF ShardClosed(resp)
       THEN /\ pc' = "shardClosed"
            /\ UNCHANGED <<events, delivered>>
       ELSE /\ pc' = "idle"
            /\ events' = Append(events, "ProcessRecords")
            /\ delivered' = IF "batches" \in tracing THEN Append(delivered, resp.id)
                                                     ELSE delivered
    /\ UNCHANGED <<now, stop, config, leaseTimeout, locals, outcome, fetchCalls, slept,
                   failRun, renewErr, parentRes, callTimes, fetched, sinceStop, callMillis>>

\* lines 208-211: deliver the batch, then look at NextShardIterator
ProcessRecords ==
    /\ pc = "process"
    /\ pc' = IF ShardClosed(resp) THEN "shardClosed" ELSE "idle"
    /\ events' = Append(events, "ProcessRecords")
    /\ delivered' = IF "batches" \in tracing THEN Append(delivered, resp.id) ELSE delivered
    /\ UNCHANGED <<now, stop, config, leaseTimeout, locals, outcome, fetchCalls, slept,
                   failRun, renewErr, parentRes, callTimes, fetched, sinceStop, callMillis>>

\* lines 212-215: the shard is closed: notify the record processor and return nil
ShutdownTerminate ==
    /\ pc = "shardClosed"
    /\ Return("nil")
    /\ events' = Append(events, CloseNotification(stop))
    /\ UNCHANGED <<now, stop, config, leaseTimeout, locals, fetchCalls, slept,
                   failRun, renewErr, parentRes, logs>>

\* variant: the loop ends by itself once it has caught up with the stream
IdleUntilCaughtUp ==
    /\ pc = "idle"
    /\ IF ShouldIdle(resp.n, resp.lag, idleTime)
       THEN Return("nil")
       ELSE pc' = "stopCheck" /\ outcome' = outcome
    /\ UNCHANGED <<now, slept, stop, config, leaseTimeout, locals, events, fetchCalls,
                   failRun, renewErr, parentRes, logs>>

\* lines 219-224: idle between reads
Idle ==
    /\ pc = "idle"
    /\ pc' = "stopCheck"
    /\ IF ShouldIdle(resp.n, resp.lag, idleTime)
       THEN /\ now' = now + idleTime
            /\ slept' = Append(slept, [kind |-> "idle", ms |-> idleTime])
       ELSE UNCHANGED <<now, slept>>
    /\ UNCHANGED <<stop, config, leaseTimeout, locals, outcome, events, fetchCalls,
                   failRun, renewErr, parentRes, logs>>

\* variant: the stop channel is polled only after an empty batch
StopCheckWhenEmpty ==
    /\ pc = "stopCheck"
    /\ IF stop /\ resp.n = 0
       THEN /\ Return("nil")
            /\ events' = Append(events, "Shutdown:REQUESTED")
       ELSE /\ pc' = "leaseCheck"
            /\ UNCHANGED <<outcome, events>>
    /\ UNCHANGED <<now, stop, config, leaseTimeout, locals, fetchCalls, slept,
                   failRun, renewErr, parentRes, logs>>

\* lines 226-232: non-blocking poll of the stop channel
StopCheck ==
    /\ pc = "stopCheck"
    /\ IF stop
       THEN /\ Return("nil")
            /\ events' = Append(events, "Shutdown:REQUESTED")
       ELSE /\ pc' = "leaseCheck"
            /\ UNCHANGED <<outcome, events>>
    /\ UNCHANGED <<now, stop, config, leaseTimeout, locals, fetchCalls, slept,
                   failRun, renewErr, parentRes, logs>>

\* variant: the lease is released on the clean returns only, not by a defer
ReleaseLeaseOnCleanReturn ==
    /\ pc = "returning"
    /\ pc' = "done"
    /\ events' = IF outcome = "nil" THEN Append(events, "releaseLease") ELSE events
    /\ UNCHANGED <<now, stop, config, leaseTimeout, locals, outcome, fetchCalls, slept,
                   failRun, renewErr, parentRes, logs>>

\* line 86: the deferred releaseLease runs when getRecords returns
ReleaseLease ==
    /\ pc = "returning"
    /\ pc' = "done"
    /\ events' = Append(events, "releaseLease")
    /\ UNCHANGED <<now, stop, config, leaseTimeout, locals, outcome, fetchCalls, slept,
                   failRun, renewErr, parentRes, logs>>

\* the owner of the worker closes the stop channel
SetStop ==
    /\ pc # "done"
    /\ ~stop
    /\ stop' = TRUE
    /\ UNCHANGED <<pc, now, config, leaseTimeout, locals, outcome, events, fetchCalls, slept,
                   failRun, renewErr, parentRes, logs>>

Next ==
    \/ WaitOnParentShard
    \/ GetShardIterator
    \/ Initialize
    \/ LeaseCheck
    \/ Throttle
    \/ Fetch
    \/ RetryWait
    \/ ProcessRecords
    \/ ShutdownTerminate
    \/ Idle
    \/ StopCheck
    \/ ReleaseLease
    \/ SetStop

Spec == Init /\ [][Next]_vars

\* the state at the start of a run, but for the configuration and the collaborators
Start ==
    /\ pc = "waitParent"
    /\ now = 0
    /\ stop = FALSE
    /\ retriedErrors = 0
    /\ transactionNum = 0
    /\ firstTransactionTime = 0
    /\ resp = NoResp
    /\ outcome = "none"
    /\ events = <<>>
    /\ fetchCalls = 0
    /\ slept = <<>>
    /\ failRun = <<>>
    /\ renewErr = "none"
    /\ parentRes = "none"
    /\ callTimes = <<>>
    /\ fetched = <<>>
    /\ delivered = <<>>
    /\ sinceStop = 0
    /\ callMillis = 0

\* runs against a stream that has caught up, whose calls succeed or fail with
\* throughput-exceeded, with the Kinesis client logging the times of the
\* calls it receives
InitThrottle ==
    /\ Start
    /\ maxRetryCount = 1
    /\ idleTime \in IdleTimes
    /\ leaseTimeout = LeaseDurationMillis
    /\ fetchLimit = MaxTraceFetches
    /\ answers = {r \in OkResponses : r.lag = 0} \cup {ErrResp("pte")}
    /\ latencies = CallDurations
    /\ tracing = {"calls"}
    /\ rl = NoLimiter

ThrottleSpec == InitThrottle /\ [][Next]_vars

\* runs in which the Kinesis client and the record processor log the batches
\* and the calls made after the stop channel was closed
InitTrace ==
    /\ Start
    /\ maxRetryCount \in 0..MaxRetryBound
    /\ idleTime = IdleMillis
    /\ leaseTimeout = LeaseDurationMillis
    /\ fetchLimit = MaxFetches
    /\ answers = FetchResponses
    /\ latencies = {0}
    /\ tracing = {"batches", "stop"}
    /\ rl = NoLimiter

TraceSpec == InitTrace /\ [][Next]_vars

\* the steps of the run itself: getRecords runs on its own goroutine, every
\* collaborator call returns and every sleep ends
Run ==
    \/ WaitOnParentShard
    \/ GetShardIterator
    \/ Initialize
    \/ LeaseCheck
    \/ Throttle
    \/ Fetch
    \/ RetryWait
    \/ ProcessRecords
    \/ ShutdownTerminate
    \/ Idle
    \/ StopCheck
    \/ ReleaseLease

FairTraceSpec == TraceSpec /\ WF_vars(Run)

----------------------------------------------------------------------------
(* Observations used by the properties *)

Count(seq, x) == Cardinality({i \in 1..Len(seq) : seq[i] = x})

Shutdowns == {"Shutdown:TERMINATE", "Shutdown:REQUESTED"}

ShutdownCount == Cardinality({i \in 1..Len(events) : events[i] \in Shutdowns})

Returned == pc \in {"returning", "done"}

ReleasedLast == Len(events) > 0 /\ events[Len(events)] = "releaseLease"

ErrorOutcomes == {"parentErr", "iterErr", "leaseErr", "pte", "kms", "other"}

----------------------------------------------------------------------------
\* C1: every run of getRecords, whatever its exit path, releases the lease
\* exactly once; nothing is released while the run is still going, and the
\* release is the last call of the run, so it comes after any Shutdown
\* notification to the record processor.
C1_LeaseReleasedOnce ==
    /\ pc = "done" => Count(events, "releaseLease") = 1 /\ ReleasedLast
    /\ pc # "done" => Count(events, "releaseLease") = 0
    /\ Returned <=> outcome # "none"

C1_Witness ==
    /\ pc = "done"
    /\ outcome = "other"
    /\ events = <<"Initialize", "ProcessRecords", "releaseLease">>

\* C2: a throughput-exceeded failure does not end the run while the number of
\* consecutive retriable failures is at most MaxRetryCount (the loop goes on
\* after the one-second cooldown); failure number MaxRetryCount+1 makes
\* getRecords return that error, and the lease is released on that path too.
C2_ThroughputExceededRetry ==
    /\ (resp.kind = "pte" /\ Len(failRun) <= maxRetryCount) =>
          /\ outcome \in {"none", "nil", "leaseErr"}
          /\ outcome # "none" => renewErr # "none"
          /\ pc # "retryWait" => slept # <<>> /\ slept[1] = [kind |-> "pte", ms |-> 1000]
          /\ pc = "retryWait" => slept = <<>> /\ outcome = "none"
    /\ (resp.kind = "pte" /\ Len(failRun) > maxRetryCount) =>
          /\ Len(failRun) = maxRetryCount + 1
          /\ Returned
          /\ outcome = "pte"
    /\ (pc = "done" /\ outcome = "pte") =>
          Count(events, "releaseLease") = 1 /\ ReleasedLast

C2_Witness ==
    /\ pc = "done"
    /\ outcome = "pte"
    /\ maxRetryCount = 2
    /\ failRun = <<"pte", "pte", "pte">>
    /\ ReleasedLast

\* C3: when the first GetRecords call of a run succeeds without a
\* NextShardIterator, the run ends with a nil outcome after that one call and
\* one Shutdown(TERMINATE); no sleep, no stop poll (a closed stop channel
\* does not change the reason) and no second fetch happen, and the lease is released.
FirstFetchClosedShard == fetchCalls = 1 /\ resp.kind = "ok" /\ ~resp.hasNext

C3_ClosedOnFirstFetch ==
    /\ [](FirstFetchClosedShard =>
            /\ pc \in {"process", "shardClosed", "returning", "done"}
            /\ slept = <<>>
            /\ pc = "process" => events = <<"Initialize">> /\ outcome = "none"
            /\ pc = "shardClosed" =>
                  events = <<"Initialize", "ProcessRecords">> /\ outcome = "none"
            /\ pc = "returning" =>
                  /\ events = <<"Initialize", "ProcessRecords", "Shutdown:TERMINATE">>
                  /\ outcome = "nil"
            /\ pc = "done" =>
                  /\ events = <<"Initialize", "ProcessRecords", "Shutdown:TERMINATE",
                                "releaseLease">>
                  /\ outcome = "nil")
    /\ [][FirstFetchClosedShard => FirstFetchClosedShard']_vars

C3_Witness ==
    /\ FirstFetchClosedShard
    /\ pc = "done"
    /\ stop
    /\ resp.n = 2

\* C4 (as claimed): once the stop channel is closed at any point after a
\* successful fetch with a continuation iterator and before the next fetch is
\* issued, no further GetRecords call is made.
AfterOkFetch == resp.kind = "ok" /\ resp.hasNext

C4_StopAnywhereBetweenFetches ==
    [][(stop /\ AfterOkFetch
           /\ pc \in {"process", "idle", "stopCheck", "leaseCheck", "throttle", "fetch"})
        => fetchCalls' = fetchCalls]_vars

\* C4 (amended): when the stop channel is closed after a successful fetch with
\* a continuation iterator and no later than the stop poll that ends that
\* cycle (during record delivery or the idle sleep), the run makes no further
\* GetRecords call, notifies Shutdown(REQUESTED) at the poll and returns nil.
C4_StopBeforePoll ==
    /\ [][(stop /\ AfterOkFetch /\ pc \in {"process", "idle", "stopCheck"}) =>
            /\ fetchCalls' = fetchCalls
            /\ pc # "stopCheck" => pc' \in {"idle", "stopCheck"}
            /\ pc = "stopCheck" =>
                  /\ pc' = "returning"
                  /\ outcome' = "nil"
                  /\ events' = Append(events, "Shutdown:REQUESTED")]_vars
    /\ []((Count(events, "Shutdown:REQUESTED") > 0) =>
            /\ Returned /\ outcome = "nil" /\ stop /\ AfterOkFetch
            /\ ShutdownCount = 1)

C4_Witness ==
    /\ pc = "done"
    /\ fetchCalls = 2
    /\ resp.n = 2
    /\ events = <<"Initialize", "ProcessRecords", "ProcessRecords",
                  "Shutdown:REQUESTED", "releaseLease">>

\* C5: a lease renewal is attempted only within the refresh period of the
\* lease timeout; when it fails with ErrLeaseNotAcquired the run returns nil,
\* when it fails with any other error the run returns that error, and in
\* both cases no further GetRecords call is made.
C5_LeaseRenewalFailure ==
    /\ [](renewErr # "none" =>
            /\ LeaseNeedsRefresh(now, leaseTimeout)
            /\ Returned
            /\ outcome = (IF renewErr = "ErrLeaseNotAcquired" THEN "nil" ELSE "leaseErr"))
    /\ [][renewErr # "none" => fetchCalls' = fetchCalls]_vars

C5_Witness ==
    /\ renewErr = "ErrLeaseNotAcquired"
    /\ pc = "done"
    /\ outcome = "nil"
    /\ fetchCalls = 2

\* C6: a GetRecords error other than throughput-exceeded and KMS throttling
\* ends the run at once with that error: the step that receives it returns
\* without a sleep and without touching the retry counter, whatever is left
\* of the retry budget, and no fetch follows.
C6_FatalFetchError ==
    /\ [](resp.kind = "other" => Returned /\ outcome = "other" /\ slept = <<>>)
    /\ [][(fetchCalls' = fetchCalls + 1 /\ resp'.kind = "other") =>
            /\ retriedErrors' = retriedErrors
            /\ now' - now \in CallDurations]_vars
    /\ [][resp.kind = "other" => fetchCalls' = fetchCalls]_vars

C6_Witness ==
    /\ resp.kind = "other"
    /\ pc = "done"
    /\ retriedErrors = 1
    /\ maxRetryCount = 2

\* C7: after N consecutive KMS-throttling failures (and nothing else since the
\* last success), 1 <= N <= MaxRetryCount, the sleep taken before the next
\* attempt is 100 ms * 2^N.
OnlyKms == \A i \in 1..Len(failRun) : failRun[i] = "kms"

C7_KmsBackoff ==
    (resp.kind = "kms" /\ OnlyKms /\ Len(failRun) <= maxRetryCount) =>
        /\ Len(failRun) >= 1
        /\ pc = "retryWait" => slept = <<>>
        /\ pc # "retryWait" =>
              slept # <<>> /\ slept[1] = [kind |-> "kms", ms |-> 100 * (2 ^ Len(failRun))]

C7_Witness ==
    /\ resp.kind = "kms"
    /\ failRun = <<"kms", "kms">>
    /\ maxRetryCount = 2
    /\ pc = "fetch"
    /\ slept = <<[kind |-> "kms", ms |-> 400]>>

\* C8: throughput-exceeded and KMS-throttling failures feed one counter: the
\* counter equals the number of consecutive retriable failures of both kinds,
\* and getRecords returns the error exactly when that number exceeds
\* MaxRetryCount, however the failures are split between the kinds.
C8_SharedRetryCounter ==
    /\ retriedErrors = Len(failRun)
    /\ Len(failRun) <= maxRetryCount + 1
    /\ resp.kind \in {"pte", "kms"} =>
          ((Len(failRun) > maxRetryCount) <=> (Returned /\ outcome = resp.kind))

C8_Witness ==
    /\ pc = "done"
    /\ outcome = "kms"
    /\ maxRetryCount = 2
    /\ failRun = <<"kms", "pte", "kms">>

\* C9: right after every successful fetch the retry counter is 0, so a run
\* that ends by retry exhaustion has seen MaxRetryCount+1 failures in a row
\* since its last success.
C9_ResetOnSuccess ==
    /\ resp.kind = "ok" => retriedErrors = 0
    /\ outcome \in {"pte", "kms"} => Len(failRun) = maxRetryCount + 1

\* one failure, then a success
C9_Witness ==
    /\ fetchCalls = 2
    /\ transactionNum = 1
    /\ resp.kind = "ok"
    /\ pc = "process"
    /\ retriedErrors = 0

\* C10: after a successful fetch with a continuation iterator, the sleeps
\* taken up to the next fetch contain exactly one idle sleep of the idle
\* interval when the batch was empty and the lag is below the idle interval,
\* and none when records were returned or the lag is at or above it.
IdleSleeps == {i \in 1..Len(slept) : slept[i].kind = "idle"}

C10_IdlePacing ==
    AfterOkFetch =>
        IF pc \in {"process", "idle"}
        THEN IdleSleeps = {}
        ELSE IF resp.n = 0 /\ resp.lag < idleTime
             THEN /\ Cardinality(IdleSleeps) = 1
                  /\ \A i \in IdleSleeps : slept[i].ms = idleTime
             ELSE IdleSleeps = {}

C10_Witness ==
    /\ AfterOkFetch
    /\ pc = "fetch"
    /\ stop = FALSE
    /\ slept = <<[kind |-> "idle", ms |-> idleTime]>>

\* C11: ErrSequenceIDNotFound from the parent wait is taken as success: the
\* run goes on to acquire the iterator exactly as after a successful wait.
\* Any other parent-wait error ends the run with that error, before
\* Initialize and before any GetRecords call.
C11_ParentWait ==
    /\ [](parentRes \in {"ok", "ErrSequenceIDNotFound"} =>
            pc = "getIterator" /\ outcome = "none" /\ events = <<>>)
    /\ [](parentRes = "parentErr" =>
            /\ Returned
            /\ outcome = "parentErr"
            /\ fetchCalls = 0
            /\ Count(events, "Initialize") = 0)
    /\ [][(pc = "getIterator" /\ pc' # pc) =>
            \/ pc' = "initialize" /\ events' = <<>> /\ outcome' = "none"
            \/ pc' = "returning" /\ outcome' = "iterErr"]_vars
    /\ [][(pc = "initialize" /\ pc' # pc) =>
            pc' = "leaseCheck" /\ events' = <<"Initialize">> /\ outcome' = "none"]_vars
    /\ [](outcome = "parentErr" => parentRes = "parentErr")

C11_Witness ==
    /\ parentRes = "ErrSequenceIDNotFound"
    /\ pc = "getIterator"
    /\ ENABLED GetShardIterator

\* C12: the loop does not end on its own.  Every return has a cause: the
\* shard was closed, the stop channel was closed, the lease was lost, or an
\* error (fatal, or retriable with the retry budget exhausted) occurred; and
\* from every position of the loop the run can step on, in the order of the
\* loop, towards the next GetRecords call.
LoopPcs == {"leaseCheck", "throttle", "fetch", "retryWait", "process", "shardClosed",
            "idle", "stopCheck"}

LoopSuccessors(p) ==
    CASE p = "leaseCheck" -> {"throttle"}
      [] p = "throttle" -> {"fetch"}
      [] p = "fetch" -> {"process", "retryWait"}
      [] p = "retryWait" -> {"leaseCheck"}
      [] p = "process" -> {"idle", "shardClosed"}
      [] p = "idle" -> {"stopCheck"}
      [] p = "stopCheck" -> {"leaseCheck"}
      [] OTHER -> {}

LoopStep ==
    \/ LeaseCheck \/ Throttle \/ Fetch \/ RetryWait
    \/ ProcessRecords \/ ShutdownTerminate \/ Idle \/ StopCheck

EndedByClosure ==
    /\ outcome = "nil" /\ resp.kind = "ok" /\ ~resp.hasNext
    /\ Count(events, "Shutdown:TERMINATE") = 1
EndedByStop ==
    /\ outcome = "nil" /\ stop /\ resp.kind = "ok" /\ resp.hasNext
    /\ Count(events, "Shutdown:REQUESTED") = 1
EndedByLeaseLoss == outcome = "nil" /\ renewErr = "ErrLeaseNotAcquired"
EndedByError ==
    \/ outcome = "parentErr" /\ parentRes = "parentErr"
    \/ outcome = "iterErr" /\ events \in {<<>>, <<"releaseLease">>}
    \/ outcome = "leaseErr" /\ renewErr = "leaseErr"
    \/ outcome = "other" /\ resp.kind = "other"
    \/ outcome \in {"pte", "kms"} /\ resp.kind = outcome /\ Len(failRun) > maxRetryCount

C12_NoSpontaneousEnd ==
    /\ [](Returned => (EndedByClosure \/ EndedByStop \/ EndedByLeaseLoss \/ EndedByError))
    /\ []((pc \in LoopPcs /\ (pc = "fetch" => fetchCalls < fetchLimit)) => ENABLED LoopStep)
    /\ [][(pc \in LoopPcs /\ pc' # pc) => pc' \in LoopSuccessors(pc) \cup {"returning"}]_vars

C12_Witness ==
    /\ pc = "fetch"
    /\ fetchCalls = 4
    /\ transactionNum = 4
    /\ ~stop
    /\ AfterOkFetch

\* C13: the read-transaction throttle keeps the GetRecords calls issued
\* within any rolling one-second interval at or below
\* MaxReadTransactionsPerSecond: of any MaxReadTransactionsPerSecond+1
\* consecutive calls, the last is issued at least one second after the first.
C13_CallRateCapped ==
    Len(callTimes) > MaxReadTransactionsPerSecond =>
        callTimes[Len(callTimes)] - callTimes[1] >= Second

\* C13 (second half): whenever the throttle sleeps, the sleep is long enough
\* to carry the next call out of the one-second window that began with the
\* first transaction counted.
C13_ThrottleSleepSuffices ==
    (pc = "fetch" /\ slept # <<>> /\ slept[Len(slept)].kind = "throttle") =>
        now - firstTransactionTime >= Second

\* C14: callGetRecordsAPI with no call left and less than a second since the
\* window started returns a nil output and localTPSExceededError without
\* calling GetRecords; with calls left, a full second elapsed and no bytes
\* read it calls GetRecords once, without a cool-off, and returns its output
\* and a nil error.
C14_CallBudget ==
    rl.phase = "returned" =>
        /\ (rl.callsLeft0 = 0 /\ rl.sinceFirstCall < 1000) =>
              rl.out = "nil" /\ rl.err = "localTPSExceededError" /\ rl.calls = 0
        /\ (rl.callsLeft0 > 0 /\ rl.sinceFirstCall >= 1000 /\ rl.bytesRead = 0) =>
              /\ rl.out = "output" /\ rl.err = "nil"
              /\ rl.calls = 1 /\ rl.sleepMillis = 0

\* the second case of TestCallGetRecordsAPI
C14_Witness ==
    /\ rl.phase = "returned"
    /\ rl.callsLeft0 = 0
    /\ rl.sinceFirstCall = 500
    /\ rl.err = "localTPSExceededError"

\* the three cool-off cases of TestCallGetRecordsAPI (lines 80-168): 10 MB in
\* 1 s gives 5 s, 6 MB in 3 s gives none, 8 MB in 0.2 s gives 4 s, and the
\* call is made and its output returned
TestCoolOffCases ==
    (rl.phase = "returned" /\ rl.callsLeft0 = 2 /\ rl.sinceFirstCall >= 2000) =>
        /\ (rl.bytesRead = 10000 /\ rl.remBytes = 10000 /\ rl.sinceLastCheck = 1000) =>
               rl.sleepMillis = 5000 /\ rl.out = "output" /\ rl.err = "nil"
        /\ (rl.bytesRead = 6000 /\ rl.remBytes = 10000 /\ rl.sinceLastCheck = 3000) =>
               rl.sleepMillis = 0 /\ rl.out = "output" /\ rl.err = "nil"
        /\ (rl.bytesRead = 8000 /\ rl.remBytes = 30000 /\ rl.sinceLastCheck = 200) =>
               rl.sleepMillis = 4000 /\ rl.out = "output" /\ rl.err = "nil"

\* the delay taken after a throughput-exceeded failure that is retried (lines 171-177)
PteRetryStep == pc = "retryWait" /\ resp.kind = "pte" /\ pc' # pc

\* C16 (as claimed): the sleep before the retry of a throughput-exceeded
\* failure is max(0, 1 s - time elapsed since the failed call was started).
C16_CooldownFromCallStart ==
    [][PteRetryStep =>
         LET elapsed == callMillis
         IN slept'[Len(slept')].ms = (IF elapsed < Second THEN Second - elapsed ELSE 0)]_vars

\* C16 (amended): the sleep before the retry completes a one-second cooldown
\* measured from the moment the failed call returned; that moment is read
\* right before the sleep is computed, so the sleep is the full second and
\* the retry comes no earlier than one second after the call returned, hence
\* after it was started.
C16_CooldownFromCallReturn ==
    [][PteRetryStep =>
         /\ slept' = <<[kind |-> "pte", ms |-> Second]>>
         /\ now' - now = Second
         /\ callMillis \in latencies
         /\ now' - (now - callMillis) >= Second]_vars

C16_Witness ==
    /\ resp.kind = "pte"
    /\ pc = "fetch"
    /\ fetchCalls = 1
    /\ now = CallMillis + Second
    /\ slept = <<[kind |-> "pte", ms |-> Second]>>

\* C17: the batches passed to processRecords are the batches of the
\* successful GetRecords calls, each once and in fetch order: outside the
\* delivery step the two logs are equal (so nothing is pending when the next
\* call is issued and failed calls add nothing), and at the delivery step
\* exactly the batch just fetched is missing; the batch that closes the
\* shard is delivered too.
C17_DeliveryFollowsFetch ==
    /\ pc = "process" => fetched = Append(delivered, resp.id)
    /\ pc # "process" => delivered = fetched
    /\ \A i \in 1..Len(fetched) : \A j \in 1..Len(fetched) : i < j => fetched[i] < fetched[j]
    /\ (resp.kind = "ok" /\ Returned) =>
          delivered # <<>> /\ delivered[Len(delivered)] = resp.id
    /\ Count(events, "ProcessRecords") = Len(delivered)

C17_Witness ==
    /\ pc = "done"
    /\ fetchCalls = 3
    /\ fetched = <<1, 3>>
    /\ delivered = <<1, 3>>
    /\ ~resp.hasNext
    /\ resp.n = 2

\* C18 (as claimed): a retry sequence never ends by a lease-renewal failure:
\* no renewal fails while retriable failures are outstanding.
C18_NoRenewalDuringRetries == failRun # <<>> => renewErr = "none"

\* C18 (amended): after a retriable failure and its delay the loop resumes at
\* its top, so the lease check precedes the retry; a retry sequence ends by a
\* successful fetch, a fatal error, retry exhaustion, or, when the lease has
\* come within its refresh period, by a failed lease renewal (nil for a lost
\* lease, the error otherwise).
C18_RetryResumesAtLoopTop ==
    /\ [][(fetchCalls' = fetchCalls + 1 /\ resp'.kind \in {"pte", "kms"}
            /\ pc' # "returning") => pc' = "retryWait"]_vars
    /\ [][(pc = "retryWait" /\ pc' # pc) =>
            pc' = "leaseCheck" /\ fetchCalls' = fetchCalls]_vars
    /\ [][(pc = "leaseCheck" /\ pc' # pc) => pc' \in {"throttle", "returning"}]_vars
    /\ []((failRun # <<>> /\ Returned) =>
            \/ outcome = "other" /\ resp.kind = "other"
            \/ outcome \in {"pte", "kms"} /\ Len(failRun) > maxRetryCount
            \/ /\ renewErr # "none"
               /\ LeaseNeedsRefresh(now, leaseTimeout)
               /\ outcome = (IF renewErr = "ErrLeaseNotAcquired" THEN "nil" ELSE "leaseErr"))

C18_Witness ==
    /\ pc = "done"
    /\ failRun = <<"pte">>
    /\ resp.kind = "pte"
    /\ maxRetryCount = 2
    /\ renewErr = "ErrLeaseNotAcquired"
    /\ outcome = "nil"

\* the run returned nil without a failed lease renewal (lines 214, 230)
CleanEnd == Returned /\ outcome = "nil" /\ renewErr = "none"

\* C19: a run sends at most one Shutdown, and only when it returns: TERMINATE
\* when it ends because the shard is closed (also when the stop channel is
\* closed by then), REQUESTED when it ends at the stop poll; a run that ends
\* by a lost lease, a renewal error, a parent-wait or iterator error, a fatal
\* fetch error or retry exhaustion sends none.
C19_ShutdownNotifications ==
    /\ ShutdownCount <= 1
    /\ ~Returned => ShutdownCount = 0
    /\ Returned =>
          IF CleanEnd /\ ~resp.hasNext
          THEN Count(events, "Shutdown:TERMINATE") = 1 /\ resp.kind = "ok"
          ELSE IF CleanEnd
          THEN Count(events, "Shutdown:REQUESTED") = 1 /\ stop /\ resp.kind = "ok"
          ELSE /\ ShutdownCount = 0
               /\ \/ outcome \in ErrorOutcomes
                  \/ renewErr = "ErrLeaseNotAcquired"

C19_Witness ==
    /\ pc = "done"
    /\ stop
    /\ fetchCalls = 2
    /\ resp.kind = "ok" /\ ~resp.hasNext
    /\ events = <<"Initialize", "ProcessRecords", "ProcessRecords",
                  "Shutdown:TERMINATE", "releaseLease">>

\* C20: once the stop channel is closed the run makes at most
\* MaxRetryCount+1 further GetRecords calls: a successful one is followed by
\* the end of the run in the same cycle, a fatal one ends it at once, and
\* retriable failures run into the retry ceiling; and the run does terminate.
C20_StopEndsTheRun ==
    /\ [](stop => sinceStop <= maxRetryCount + 1)
    /\ []((sinceStop >= 1 /\ resp.kind = "ok") =>
            pc \in {"process", "shardClosed", "idle", "stopCheck", "returning", "done"})
    /\ []((sinceStop >= 1 /\ resp.kind \in {"ok", "other"} /\ Returned) =>
            IF resp.kind = "other" THEN outcome = "other"
            ELSE outcome = "nil" /\ ShutdownCount = 1)
    /\ ((stop /\ fetchCalls + maxRetryCount + 1 <= fetchLimit) ~> (pc = "done"))

C20_Witness ==
    /\ pc = "done"
    /\ maxRetryCount = 2
    /\ sinceStop = 3
    /\ outcome = "nil"
    /\ failRun = <<>>
    /\ Count(events, "Shutdown:REQUESTED") = 1

TypeOK ==
    /\ pc \in {"waitParent", "getIterator", "initialize", "leaseCheck", "throttle", "fetch",
               "retryWait", "process", "shardClosed", "idle", "stopCheck", "returning", "done",
               "callGetRecordsAPI", "apiReturned"}
    /\ retriedErrors \in 0..(MaxRetryBound + 1)
    /\ fetchCalls \in 0..MaxTraceFetches
    /\ fetchCalls <= fetchLimit \/ pc \in {"callGetRecordsAPI", "apiReturned"}
====
